---- MODULE Spec2Model ----
(***************************************************************************)
(* A model of src/parallel.c: a supervisor forks one worker per argument,  *)
(* each worker sends a 26-bucket letter histogram through its own pipe,    *)
(* and the supervisor's SIGCHLD handler reaps workers, reads their pipes   *)
(* and writes file<pid>.hist.                                              *)
(*                                                                         *)
(* Every process of the run executes the same program text, so the model  *)
(* keeps one record per process (its copy of the globals, its descriptor   *)
(* table, its signal state and its position in main or in the handler).   *)
(* A process is named by the path of loop indices at which it and its      *)
(* ancestors were forked: <<>> is the supervisor, <<2>> its worker for     *)
(* argv[2], <<2,3>> a process forked by worker <<2>> for argv[3].          *)
(*                                                                         *)
(* Time is not modelled: sleep() returns after some number of steps of the *)
(* other processes.  Process identities are fresh for the whole run (no    *)
(* pid is reused), so a descriptor number stored in pipes[][] is           *)
(* represented by the pipe end it was created for.                         *)
(***************************************************************************)
EXTENDS Integers, Sequences, FiniteSets, TLC

\* src/parallel.c:13
MAX_FILES == 100

\* Largest argument count, within MAX_FILES, whose runs are explored by Spec.
MaxArgs == 2

\* The argument count of the runs explored by SpecPaths.
PathArgs == 3

\* How many system calls (pipe, fork, malloc, open of a result file) may fail
\* in one run.
MaxFaults == 1

\* How deep a "SIG" worker whose sleep(10) ran out may itself fork.
MaxDepth == 1

\* Buffers of at most this many bytes are given to Histogram in SpecHist.
MaxLen == 3

\* A read() that delivers less than the 26 ints delivers at most this many in
\* SpecRead.
MaxShort == 3

\* The largest count in what such a read() delivers.
MaxCount == 2

-----------------------------------------------------------------------------
(* Bytes and the C library functions the program applies to them.          *)

\* isalpha() in the "C" locale (the program never calls setlocale).
isalpha(c) == (c >= 65 /\ c <= 90) \/ (c >= 97 /\ c <= 122)

\* tolower() in the "C" locale.
tolower(c) == IF c >= 65 /\ c <= 90 THEN c + 32 ELSE c

Letters == 1..26

ZeroHist == [b \in Letters |-> 0]

\* The counting step without the tolower() of line 112 (an upper-case letter
\* would index before the array; here it is not counted).
CountByteCaseSensitive(h, c) ==
    IF c >= 97 /\ c <= 122 THEN [h EXCEPT ![c - 97 + 1] = @ + 1] ELSE h

\* One iteration of the counting loop, lines 110-114; bucket b is index b-1.
CountByte(h, c) ==
    IF isalpha(c) THEN [h EXCEPT ![tolower(c) - 97 + 1] = @ + 1] ELSE h

RECURSIVE HistLoop(_, _, _, _)
HistLoop(h, Data, i, Size) ==
    IF i > Size THEN h ELSE HistLoop(CountByte(h, Data[i]), Data, i + 1, Size)

\* int *Histogram(char *Data, int Size)
Histogram(Data, Size) == HistLoop(ZeroHist, Data, 1, Size)


-----------------------------------------------------------------------------
(* The result file, lines 60-73.                                           *)

RECURSIVE Digits(_)
\* "%d" of a non-negative int.
Digits(n) == IF n < 10 THEN <<48 + n>> ELSE Digits(n \div 10) \o <<48 + (n % 10)>>

\* sprintf(line, "%c=%d\n", letter, count); letter b is the byte 'a' + b - 1.
Line(letter, count) == <<96 + letter, 61>> \o Digits(count) \o <<10>>

\* write(fd, bytes) at offset off of a file opened without O_TRUNC or O_APPEND:
\* the bytes replace what was there and the rest of the file stays.
WriteAt(content, off, bytes) ==
    LET n == IF Len(content) > off + Len(bytes) THEN Len(content) ELSE off + Len(bytes)
    IN  [j \in 1..n |-> IF j > off /\ j <= off + Len(bytes) THEN bytes[j - off] ELSE content[j]]

RECURSIVE HistLines(_, _)
\* for (char letter = 'a'; letter <= 'z'; letter++) sprintf(line, ...): the
\* lines from letter on, one after the other.
HistLines(counts, letter) ==
    IF letter > 26 THEN <<>>
    ELSE Line(letter, counts[letter]) \o HistLines(counts, letter + 1)

\* open(filename, O_CREAT | O_WRONLY, 0644), the 26 write() calls, close: the
\* file's bytes afterwards, from its bytes before (<<>> when it did not
\* exist).  The writes start at offset 0 and each goes on where the one before
\* ended.
SaveHist(old, counts) == WriteAt(old, 0, HistLines(counts, 1))

\* The 26 lines a=..,...,z=.. on their own.
HistText(counts) == SaveHist(<<>>, counts)

-----------------------------------------------------------------------------
(* Arguments, processes, pipes.                                            *)

\* The kinds of argument explored: the path of a readable file (a different
\* file at each position), a path that cannot be opened, and the token the
\* program compares against at lines 159 and 205.
Paths == {"file", "nofile", "SIG"}

\* Whether open(argv[i], O_RDONLY) succeeds, line 161.
Readable(path) == path = "file"

\* The bytes lseek()/read() deliver for the file named at position k, lines
\* 169-177: "AbcAbc" at position 1, k times the k-th lower-case letter after it.
FileData(k) == IF k = 1 THEN <<65, 98, 99, 65, 98, 99>> ELSE [j \in 1..k |-> 96 + k]

Root == <<>>

Increasing(s) == \A j \in 1..(Len(s) - 1) : s[j] < s[j + 1]

\* Every process a run can create: the supervisor, its workers, and what
\* workers fork when they go on with the loop.
MaxIndex == IF MaxArgs > PathArgs THEN MaxArgs ELSE PathArgs

Procs == {s \in UNION {[1..d -> 1..MaxIndex] : d \in 0..(MaxDepth + 1)} : Increasing(s)}

Workers == Procs \ {Root}

Parent(p) == SubSeq(p, 1, Len(p) - 1)

Children(p) == {c \in Workers : Parent(c) = p}

RECURSIVE PidOf(_)
\* The value fork() returns for process p: distinct for distinct processes.
PidOf(p) == IF p = Root THEN 4 ELSE PidOf(Parent(p)) * 10 + p[Len(p)]

Pids == {PidOf(c) : c \in Workers}

\* Argument lists: every list of at most MaxArgs arguments, and lists of
\* MAX_FILES + 1 arguments.
ArgLists == UNION {[1..n -> Paths] : n \in 0..MaxArgs}
              \cup {[j \in 1..(MAX_FILES + 1) |-> a] : a \in Paths}

VARIABLES
    args,        \* argv[1..argc-1]
    signalSysV,  \* whether signal() installs a one-shot, non-blocking handler
    proc,        \* per process: its globals, descriptors, signal state, position
    pipeData,    \* per pipe (named by the worker it was made for): bytes in flight
    files,       \* pid |-> bytes of file<pid>.hist as this run left it (<<>>: not opened)
    written,     \* pids whose file this run has opened and written
    closed,      \* <<process, pipe, end>>: close() calls that closed a descriptor
    badClose,    \* <<process, pipe, end>>: close() calls on a descriptor not open
    faults,      \* how many system calls have failed
    Data,        \* SpecHist: the buffer given to Histogram
    histogram    \* SpecHist: what Histogram returned for it (<<>> before the call)

vars == <<args, signalSysV, proc, pipeData, files, written, closed, badClose, faults,
          Data, histogram>>

argc == Len(args) + 1

\* A result file a former run left behind (a run whose worker counted ten a's).
StaleFile == HistText([ZeroHist EXCEPT ![1] = 10])

\* What open(filename, O_CREAT | O_WRONLY) can find under the name of pid n: the
\* bytes this run wrote there, else no file, or for the first worker's pid a
\* file of a former run that gave the same pid.
Existing(n) ==
    IF n \in written THEN {files[n]}
    ELSE IF n = PidOf(<<1>>) THEN {<<>>, StaleFile} ELSE {<<>>}

NoPipe == <<0>>

\* The state of a process image before main runs.
Fresh ==
    [pc |-> "unborn", i |-> 0, numChildren |-> 0, numTerminated |-> 0,
     pids |-> [j \in 1..MaxIndex |-> 0], pipes |-> [j \in 1..MaxIndex |-> NoPipe],
     fds |-> {}, disp |-> "dfl", blocked |-> FALSE, pend |-> FALSE, sigint |-> FALSE,
     hpc |-> "idle", child_pid |-> 0, child_status |-> "none", curPipe |-> 0,
     characterCounts |-> ZeroHist,
     status |-> "none"]

\* The state main starts in, but for the arguments.
Start ==
    /\ signalSysV \in BOOLEAN
    /\ proc = [p \in Procs |-> IF p = Root THEN [Fresh EXCEPT !.pc = "main"] ELSE Fresh]
    /\ pipeData = [c \in Workers |-> <<>>]
    /\ files = [n \in Pids |-> <<>>]
    /\ written = {}
    /\ closed = {}
    /\ badClose = {}
    /\ faults = 0
    /\ Data = <<>>
    /\ histogram = <<>>

Init == args \in ArgLists /\ Start


-----------------------------------------------------------------------------
(* Process life cycle and signals.                                         *)

Dead == {"unborn", "zombie", "reaped", "gone"}

Alive(p) == proc[p].pc \notin Dead

\* The process runs main (it is not inside the handler).
InMain(p) == Alive(p) /\ proc[p].hpc = "idle"

\* The argument of the iteration process p is in.
Arg(p) == args[proc[p].i]

\* The worker process p forks in its current iteration.
Kid(p) == Append(p, proc[p].i)

\* Process p ends with disposition st.  Its descriptors are closed by the
\* kernel and its memory is gone (the supervisor's last values are kept, to
\* be read where it returned); it stays a zombie while its parent lives, and the parent is sent
\* SIGCHLD, which is dropped when the parent's disposition is the default and
\* the signal is not blocked.  Zombies p leaves behind are reaped by init.
Terminate(p, st) ==
    [q \in Procs |->
        IF q = p
        THEN [(IF p = Root THEN proc[q] ELSE Fresh) EXCEPT
                 !.pc = IF p # Root /\ Alive(Parent(p)) THEN "zombie" ELSE "gone",
                 !.status = st, !.fds = {}]
        ELSE IF q # Root /\ Parent(q) = p /\ proc[q].pc = "zombie"
        THEN [proc[q] EXCEPT !.pc = "gone"]
        ELSE IF p # Root /\ q = Parent(p) /\ Alive(q)
                /\ (proc[q].disp # "dfl" \/ proc[q].blocked)
        THEN [proc[q] EXCEPT !.pend = TRUE]
        ELSE proc[q]]

\* close(fd) by process p of end e of pipe c.
CloseIn(pr, p, c, e) ==
    IF <<c, e>> \in pr[p].fds THEN [pr EXCEPT ![p].fds = @ \ {<<c, e>>}] ELSE pr

CloseLog(p, c, e) ==
    /\ closed' = IF <<c, e>> \in proc[p].fds THEN closed \cup {<<p, c, e>>} ELSE closed
    /\ badClose' = IF <<c, e>> \in proc[p].fds THEN badClose ELSE badClose \cup {<<p, c, e>>}

NoClose == UNCHANGED <<closed, badClose>>

Env == UNCHANGED <<args, signalSysV, faults, Data, histogram>>

\* A system call fails.
Fault ==
    /\ faults < MaxFaults
    /\ faults' = faults + 1
    /\ UNCHANGED <<args, signalSysV, Data, histogram>>

-----------------------------------------------------------------------------
(* main, lines 120-220.                                                    *)

\* The tests of argc without the one against MAX_FILES.
BadArgcNoLimit == argc = 1

\* Lines 124 and 128: the two tests of argc.
BadArgc == argc = 1 \/ argc > MAX_FILES + 1

\* Lines 124-131: no argument, or more than MAX_FILES: exit(EXIT_FAILURE).
ValidateFail ==
    /\ proc[Root].pc = "main"
    /\ BadArgc
    /\ proc' = Terminate(Root, "exit1")
    /\ UNCHANGED <<pipeData, files, written>> /\ NoClose /\ Env

\* Lines 133-138: sigaction(SIGCHLD) with sa_flags = 0; then the loop at i = 1.
Register ==
    /\ proc[Root].pc = "main"
    /\ ~BadArgc
    /\ proc' = [proc EXCEPT ![Root].disp = "sigaction", ![Root].pc = "loop", ![Root].i = 1]
    /\ UNCHANGED <<pipeData, files, written>> /\ NoClose /\ Env

\* Lines 141-148: i < argc, pipe(pipes[i - 1]).
LoopPipe(p) ==
    /\ InMain(p) /\ proc[p].pc = "loop" /\ proc[p].i < argc
    /\ proc' = [proc EXCEPT ![p].pipes[proc[p].i] = Kid(p),
                            ![p].fds = @ \cup {<<Kid(p), "r">>, <<Kid(p), "w">>},
                            ![p].pc = "fork"]
    /\ UNCHANGED <<pipeData, files, written>> /\ NoClose /\ Env

\* Lines 145-148: pipe() fails: exit(EXIT_FAILURE).
PipeFail(p) ==
    /\ InMain(p) /\ proc[p].pc = "loop" /\ proc[p].i < argc
    /\ proc' = Terminate(p, "exit1")
    /\ UNCHANGED <<pipeData, files, written>> /\ NoClose /\ Fault

\* Lines 150-153: fork() fails: exit(EXIT_FAILURE).
ForkFail(p) ==
    /\ InMain(p) /\ proc[p].pc = "fork"
    /\ proc' = Terminate(p, "exit1")
    /\ UNCHANGED <<pipeData, files, written>> /\ NoClose /\ Fault

\* Line 150: fork().  The child is a copy of the parent with no pending signal.
Fork(p) ==
    /\ InMain(p) /\ proc[p].pc = "fork"
    /\ proc' = [proc EXCEPT ![p].pc = "pclose",
                            ![Kid(p)] = [proc[p] EXCEPT !.pc = "cstart", !.pend = FALSE,
                                                        !.sigint = FALSE]]
    /\ UNCHANGED <<pipeData, files, written>> /\ NoClose /\ Env

\* Line 200: close(pipes[i - 1][1]) in the parent.
ParentClose(p) ==
    /\ InMain(p) /\ proc[p].pc = "pclose"
    /\ proc' = [CloseIn(proc, p, proc[p].pipes[proc[p].i], "w") EXCEPT ![p].pc = "psetpid"]
    /\ CloseLog(p, proc[p].pipes[proc[p].i], "w")
    /\ UNCHANGED <<pipeData, files, written>> /\ Env

\* Line 201: pids[i - 1] = pid.
ParentSetPid(p) ==
    /\ InMain(p) /\ proc[p].pc = "psetpid"
    /\ proc' = [proc EXCEPT ![p].pids[proc[p].i] = PidOf(Kid(p)), ![p].pc = "pinc"]
    /\ UNCHANGED <<pipeData, files, written>> /\ NoClose /\ Env

\* Line 202: numChildren++; then line 205 decides whether to signal the child.
ParentInc(p) ==
    /\ InMain(p) /\ proc[p].pc = "pinc"
    /\ proc' = [proc EXCEPT ![p].numChildren = @ + 1,
                            ![p].pc = IF Arg(p) = "SIG" THEN "pkill" ELSE "loop",
                            ![p].i = IF Arg(p) = "SIG" THEN @ ELSE @ + 1]
    /\ UNCHANGED <<pipeData, files, written>> /\ NoClose /\ Env

\* Lines 205-208: kill(pid, SIGINT); it reaches the child if that still runs.
ParentKill(p) ==
    /\ InMain(p) /\ proc[p].pc = "pkill"
    /\ proc' = [proc EXCEPT ![p].pc = "loop", ![p].i = @ + 1,
                            ![Kid(p)].sigint = IF Alive(Kid(p)) THEN TRUE ELSE @]
    /\ UNCHANGED <<pipeData, files, written>> /\ NoClose /\ Env

\* Line 141 with i = argc: the loop ends, line 213.
LoopEnd(p) ==
    /\ InMain(p) /\ proc[p].pc = "loop" /\ ~(proc[p].i < argc)
    /\ proc' = [proc EXCEPT ![p].pc = "wait"]
    /\ UNCHANGED <<pipeData, files, written>> /\ NoClose /\ Env

\* Lines 214-215: numTerminated < numChildren, sleep(1).
WaitSleep(p) ==
    /\ InMain(p) /\ proc[p].pc = "wait"
    /\ proc[p].numTerminated < proc[p].numChildren
    /\ UNCHANGED vars

\* The wait loop with < replaced by a comparison that gives up one child early.
WaitReturnEarly(p) ==
    /\ InMain(p) /\ proc[p].pc = "wait"
    /\ ~(proc[p].numTerminated + 1 < proc[p].numChildren)
    /\ proc' = Terminate(p, "exit0")
    /\ UNCHANGED <<pipeData, files, written>> /\ NoClose /\ Env

\* Lines 214, 218-219: the loop condition is false, return 0.
WaitReturn(p) ==
    /\ InMain(p) /\ proc[p].pc = "wait"
    /\ ~(proc[p].numTerminated < proc[p].numChildren)
    /\ proc' = Terminate(p, "exit0")
    /\ UNCHANGED <<pipeData, files, written>> /\ NoClose /\ Env


-----------------------------------------------------------------------------
(* The child branch of main, lines 154-197.                                *)

\* The pipe of the iteration process p is in (pipes[i - 1]).
MyPipe(p) == proc[p].pipes[proc[p].i]

Readers(c) == {q \in Procs : <<c, "r">> \in proc[q].fds}

Writers(c) == {q \in Procs : <<c, "w">> \in proc[q].fds}

\* Lines 155-159: close(pipes[i - 1][0]), then strcmp(argv[i], "SIG").
ChildStart(p) ==
    /\ InMain(p) /\ proc[p].pc = "cstart"
    /\ proc' = [CloseIn(proc, p, MyPipe(p), "r") EXCEPT
                   ![p].pc = IF Arg(p) # "SIG" THEN "copen" ELSE "csigwait"]
    /\ CloseLog(p, MyPipe(p), "r")
    /\ UNCHANGED <<pipeData, files, written>> /\ Env

\* Lines 161-166: open() fails: close(pipes[i - 1][1]); exit(1).
ChildOpenFail(p) ==
    /\ InMain(p) /\ proc[p].pc = "copen" /\ ~Readable(Arg(p))
    /\ proc' = Terminate(p, "exit1")
    /\ CloseLog(p, MyPipe(p), "w")
    /\ UNCHANGED <<pipeData, files, written>> /\ Env

\* What worker p sends: Histogram(fileData, fileSize), line 182.
calcHisto(p) == Histogram(FileData(proc[p].i), Len(FileData(proc[p].i)))

\* The 26 ints of a histogram in the order write() sends them.
Payload(h) == [b \in 1..26 |-> h[b]]

\* The write of line 183 followed at once by the close of line 192, before
\* the sleep.
ChildComputeThenClose(p) ==
    /\ InMain(p) /\ proc[p].pc = "copen" /\ Readable(Arg(p))
    /\ IF Readers(MyPipe(p)) = {}
       THEN /\ proc' = Terminate(p, "signaled")
            /\ UNCHANGED pipeData
       ELSE /\ proc' = [CloseIn(proc, p, MyPipe(p), "w") EXCEPT ![p].pc = "csleep"]
            /\ pipeData' = [pipeData EXCEPT ![MyPipe(p)] = @ \o Payload(calcHisto(p))]
    /\ UNCHANGED <<files, written>> /\ NoClose /\ Env

\* Lines 161-185: open() succeeds, the file is read, and
\* write(pipes[i - 1][1], calcHisto, 26 * sizeof(int)).  With no read end left
\* open anywhere the write raises SIGPIPE.
ChildCompute(p) ==
    /\ InMain(p) /\ proc[p].pc = "copen" /\ Readable(Arg(p))
    /\ IF Readers(MyPipe(p)) = {}
       THEN /\ proc' = Terminate(p, "signaled")
            /\ UNCHANGED pipeData
       ELSE /\ proc' = [proc EXCEPT ![p].pc = "csleep"]
            /\ pipeData' = [pipeData EXCEPT ![MyPipe(p)] = @ \o Payload(calcHisto(p))]
    /\ UNCHANGED <<files, written>> /\ NoClose /\ Env

\* Lines 169-175: malloc(fileSize) fails: close(pipes[i - 1][1]); exit(1).
ChildAllocFail(p) ==
    /\ InMain(p) /\ proc[p].pc = "copen" /\ Readable(Arg(p))
    /\ proc' = Terminate(p, "exit1")
    /\ CloseLog(p, MyPipe(p), "w")
    /\ UNCHANGED <<pipeData, files, written>> /\ Fault

\* Lines 99-103, 182-185: the malloc() in Histogram fails, Histogram returns
\* NULL, and write() from NULL sends nothing.
ChildHistFail(p) ==
    /\ InMain(p) /\ proc[p].pc = "copen" /\ Readable(Arg(p))
    /\ proc' = [proc EXCEPT ![p].pc = "csleep"]
    /\ UNCHANGED <<pipeData, files, written>> /\ NoClose /\ Fault

\* Lines 188-189: sleep(10 + 3 * (i - 1)).
ChildSleep(p) ==
    /\ InMain(p) /\ proc[p].pc = "csleep"
    /\ proc' = [proc EXCEPT ![p].pc = "cclose"]
    /\ UNCHANGED <<pipeData, files, written>> /\ NoClose /\ Env

\* Line 192: close(pipes[i - 1][1]).
ChildClose(p) ==
    /\ InMain(p) /\ proc[p].pc = "cclose"
    /\ proc' = [CloseIn(proc, p, MyPipe(p), "w") EXCEPT ![p].pc = "cexit"]
    /\ CloseLog(p, MyPipe(p), "w")
    /\ UNCHANGED <<pipeData, files, written>> /\ Env

\* Line 193: exit(0).
ChildExit(p) ==
    /\ InMain(p) /\ proc[p].pc = "cexit"
    /\ proc' = Terminate(p, "exit0")
    /\ UNCHANGED <<pipeData, files, written>> /\ NoClose /\ Env

\* Lines 195-197 and 141: sleep(10) returns; the else branch ends and the
\* child goes on with the for loop at i + 1.
ChildSigTimeout(p) ==
    /\ InMain(p) /\ proc[p].pc = "csigwait"
    /\ Len(p) <= MaxDepth
    /\ proc' = [proc EXCEPT ![p].pc = "loop", ![p].i = @ + 1]
    /\ UNCHANGED <<pipeData, files, written>> /\ NoClose /\ Env

\* SIGINT, sent at line 207, is delivered: the default action ends the process.
Interrupt(p) ==
    /\ Alive(p) /\ proc[p].sigint
    /\ proc' = Terminate(p, "signaled")
    /\ UNCHANGED <<pipeData, files, written>> /\ NoClose /\ Env

-----------------------------------------------------------------------------
(* sigchld, lines 29-90.                                                   *)

\* SIGCHLD is delivered.  A handler installed by sigaction() with sa_flags = 0,
\* or by a BSD signal(), runs with SIGCHLD blocked and stays installed; one
\* installed by a System V signal() is reset to SIG_DFL and blocks nothing.
HandlerEnter(p) ==
    /\ InMain(p) /\ proc[p].pend /\ ~proc[p].blocked /\ proc[p].disp # "dfl"
    /\ proc' = [proc EXCEPT ![p].hpc = "waitpid", ![p].pend = FALSE,
                            ![p].blocked = (proc[p].disp # "sysv"),
                            ![p].disp = IF @ = "sysv" THEN "dfl" ELSE @]
    /\ UNCHANGED <<pipeData, files, written>> /\ NoClose /\ Env

WIFEXITED(st) == st \in {"exit0", "exit1"}

\* Lines 43-51: the first index whose pids entry is child_pid, 0 for none
\* (index j stands for the C index j - 1, 0 for -1).
Lookup(pids, child_pid) ==
    IF \E j \in DOMAIN pids : pids[j] = child_pid
    THEN CHOOSE j \in DOMAIN pids :
            pids[j] = child_pid /\ \A k \in DOMAIN pids : pids[k] = child_pid => j <= k
    ELSE 0

\* The reaping step with a lookup miss made fatal: exit(EXIT_FAILURE) in place
\* of the printf of line 78.
HandlerReapAbortOnMiss(p, c) ==
    /\ Alive(p) /\ proc[p].hpc = "waitpid"
    /\ c \in Children(p) /\ proc[c].pc = "zombie"
    /\ LET curPipe == IF WIFEXITED(proc[c].status) THEN Lookup(proc[p].pids, PidOf(c)) ELSE 0
           reaped == [proc EXCEPT ![c].pc = "reaped",
                                  ![p].numTerminated = @ + 1,
                                  ![p].child_pid = PidOf(c),
                                  ![p].child_status = proc[c].status,
                                  ![p].curPipe = curPipe,
                                  ![p].hpc = IF curPipe # 0 THEN "read" ELSE "waitpid"]
       IN  proc' = IF WIFEXITED(proc[c].status) /\ curPipe = 0
                   THEN [Terminate(p, "exit1") EXCEPT ![c].pc = "reaped"]
                   ELSE reaped
    /\ UNCHANGED <<pipeData, files, written>> /\ NoClose /\ Env

\* Lines 37-54, 77-82: waitpid() returns a terminated child; it is counted,
\* and if it exited its pipe is looked up.
HandlerReap(p, c) ==
    /\ Alive(p) /\ proc[p].hpc = "waitpid"
    /\ c \in Children(p) /\ proc[c].pc = "zombie"
    /\ LET curPipe == IF WIFEXITED(proc[c].status) THEN Lookup(proc[p].pids, PidOf(c)) ELSE 0
       IN  proc' = [proc EXCEPT ![c].pc = "reaped",
                                ![p].numTerminated = @ + 1,
                                ![p].child_pid = PidOf(c),
                                ![p].child_status = proc[c].status,
                                ![p].curPipe = curPipe,
                                ![p].hpc = IF curPipe # 0 THEN "read" ELSE "waitpid"]
    /\ UNCHANGED <<pipeData, files, written>> /\ NoClose /\ Env

\* read() on the read end of pipe c by process p returns: with data, at end of
\* file (no write end open anywhere), or at once with an error.
ReadReturns(p, c) ==
    \/ <<c, "r">> \notin proc[p].fds
    \/ pipeData[c] # <<>>
    \/ Writers(c) = {}

\* The ints read(fd, characterCounts, sizeof(characterCounts)) delivers.
ReadData(p, c) ==
    IF <<c, "r">> \notin proc[p].fds THEN <<>>
    ELSE SubSeq(pipeData[c], 1, IF Len(pipeData[c]) < 26 THEN Len(pipeData[c]) ELSE 26)

\* Lines 55-76: the read, the file when bytesRead > 0, close(pipes[curPipe][0]).
HandlerRead(p) ==
    /\ Alive(p) /\ proc[p].hpc = "read"
    /\ LET c == proc[p].pipes[proc[p].curPipe]
           data == ReadData(p, c)
           counts == [b \in Letters |->
                        IF b <= Len(data) THEN data[b] ELSE proc[p].characterCounts[b]]
           bytesRead == 4 * Len(data)
       IN  /\ ReadReturns(p, c)
           /\ pipeData' = [pipeData EXCEPT ![c] = SubSeq(@, Len(data) + 1, Len(@))]
           /\ IF bytesRead > 0
              THEN \E old \in Existing(proc[p].child_pid) :
                      files' = [files EXCEPT ![proc[p].child_pid] = SaveHist(old, counts)]
              ELSE files' = files
           /\ written' = IF bytesRead > 0 THEN written \cup {proc[p].child_pid} ELSE written
           /\ proc' = [CloseIn(proc, p, c, "r") EXCEPT ![p].hpc = "waitpid",
                                                      ![p].characterCounts = counts]
           /\ CloseLog(p, c, "r")
    /\ Env

\* Lines 55-65: the read delivers data and open() of the result file fails:
\* exit(EXIT_FAILURE) from inside the handler.
HandlerOpenFail(p) ==
    /\ Alive(p) /\ proc[p].hpc = "read"
    /\ LET c == proc[p].pipes[proc[p].curPipe]
       IN  /\ ReadReturns(p, c)
           /\ Len(ReadData(p, c)) > 0
           /\ pipeData' = [pipeData EXCEPT ![c] = SubSeq(@, Len(ReadData(p, c)) + 1, Len(@))]
    /\ proc' = Terminate(p, "exit1")
    /\ UNCHANGED <<files, written>> /\ NoClose /\ Fault

\* Line 37: waitpid() returns 0 or -1: the loop ends.
HandlerNoMore(p) ==
    /\ Alive(p) /\ proc[p].hpc = "waitpid"
    /\ ~\E c \in Children(p) : proc[c].pc = "zombie"
    /\ proc' = [proc EXCEPT ![p].hpc = "rearm"]
    /\ UNCHANGED <<pipeData, files, written>> /\ NoClose /\ Env

\* Lines 86-90: signal(SIGCHLD, sigchld), and the handler returns (its locals
\* are gone).
HandlerRearm(p) ==
    /\ Alive(p) /\ proc[p].hpc = "rearm"
    /\ proc' = [proc EXCEPT ![p].disp = IF signalSysV THEN "sysv" ELSE "bsd",
                            ![p].blocked = FALSE, ![p].hpc = "idle",
                            ![p].child_pid = 0, ![p].child_status = "none",
                            ![p].curPipe = 0, ![p].characterCounts = ZeroHist]
    /\ UNCHANGED <<pipeData, files, written>> /\ NoClose /\ Env

-----------------------------------------------------------------------------

Next ==
    \/ ValidateFail
    \/ Register
    \/ \E p \in Procs :
          \/ LoopPipe(p)
          \/ PipeFail(p)
          \/ Fork(p)
          \/ ForkFail(p)
          \/ ParentClose(p)
          \/ ParentSetPid(p)
          \/ ParentInc(p)
          \/ ParentKill(p)
          \/ LoopEnd(p)
          \/ WaitSleep(p)
          \/ WaitReturn(p)
          \/ ChildStart(p)
          \/ ChildOpenFail(p)
          \/ ChildCompute(p)
          \/ ChildAllocFail(p)
          \/ ChildHistFail(p)
          \/ ChildSleep(p)
          \/ ChildClose(p)
          \/ ChildExit(p)
          \/ ChildSigTimeout(p)
          \/ Interrupt(p)
          \/ HandlerEnter(p)
          \/ \E c \in Workers : HandlerReap(p, c)
          \/ HandlerRead(p)
          \/ HandlerOpenFail(p)
          \/ HandlerNoMore(p)
          \/ HandlerRearm(p)

Spec == Init /\ [][Next]_vars

-----------------------------------------------------------------------------
(* Runs with PathArgs arguments, all of them paths, in which no system     *)
(* call fails.  No process is sent SIGINT and none sleeps at line 196, so  *)
(* the steps are those of Next for such runs.  Every process that can take *)
(* a step is scheduled in the end, and a signal that can be delivered is.  *)

InitPaths == args \in [1..PathArgs -> {"file", "nofile"}] /\ Start

NextPaths ==
    \/ Register
    \/ \E p \in Procs :
          \/ LoopPipe(p)
          \/ Fork(p)
          \/ ParentClose(p)
          \/ ParentSetPid(p)
          \/ ParentInc(p)
          \/ LoopEnd(p)
          \/ WaitSleep(p)
          \/ WaitReturn(p)
          \/ ChildStart(p)
          \/ ChildOpenFail(p)
          \/ ChildCompute(p)
          \/ ChildSleep(p)
          \/ ChildClose(p)
          \/ ChildExit(p)
          \/ HandlerEnter(p)
          \/ \E c \in Workers : HandlerReap(p, c)
          \/ HandlerRead(p)
          \/ HandlerNoMore(p)
          \/ HandlerRearm(p)

SpecPaths == InitPaths /\ [][NextPaths]_vars /\ WF_vars(NextPaths)


-----------------------------------------------------------------------------
(* Runs on "SIG" followed by two paths that cannot be opened, built with   *)
(* the System V signal() that _POSIX_C_SOURCE selects in glibc.  No file   *)
(* is read in these runs, so the steps are those of Next that do not       *)
(* follow a successful open() at line 161.                                 *)

InitSig == args = <<"SIG", "nofile", "nofile">> /\ Start /\ signalSysV

NextSig ==
    \/ Register
    \/ \E p \in Procs :
          \/ LoopPipe(p)
          \/ PipeFail(p)
          \/ Fork(p)
          \/ ForkFail(p)
          \/ ParentClose(p)
          \/ ParentSetPid(p)
          \/ ParentInc(p)
          \/ ParentKill(p)
          \/ LoopEnd(p)
          \/ WaitSleep(p)
          \/ WaitReturn(p)
          \/ ChildStart(p)
          \/ ChildOpenFail(p)
          \/ ChildSigTimeout(p)
          \/ Interrupt(p)
          \/ HandlerEnter(p)
          \/ \E c \in Workers : HandlerReap(p, c)
          \/ HandlerRead(p)
          \/ HandlerNoMore(p)
          \/ HandlerRearm(p)

SpecSig == InitSig /\ [][NextSig]_vars

-----------------------------------------------------------------------------
(* The read of line 55 on its own.  The supervisor has forked the worker   *)
(* for its one argument, sits in the wait loop, and its handler has reaped *)
(* the worker and found its pipe; read() then delivers nothing, a few ints *)
(* or the 26 ints of the worker's histogram.  characterCounts is an        *)
(* uninitialized local of sigchld (line 31): it holds whatever the stack   *)
(* held.                                                                   *)

\* What read(pipes[curPipe][0], characterCounts, sizeof(characterCounts))
\* may deliver.
ReadInputs ==
    UNION {[1..n -> 0..MaxCount] : n \in 0..MaxShort} \cup {Payload(Histogram(FileData(1), Len(FileData(1))))}

\* Contents of the uninitialized array.
Garbage == {ZeroHist, [b \in Letters |-> 7]}

InitRead ==
    /\ args = <<"file">>
    /\ signalSysV \in BOOLEAN
    /\ \E g \in Garbage :
          proc = [p \in Procs |->
                    IF p = Root
                    THEN [Fresh EXCEPT !.pc = "wait", !.i = 2,
                                       !.numChildren = 1, !.numTerminated = 1,
                                       !.pids[1] = PidOf(<<1>>), !.pipes[1] = <<1>>,
                                       !.fds = {<< <<1>>, "r" >>},
                                       !.disp = "sigaction", !.blocked = TRUE,
                                       !.hpc = "read", !.child_pid = PidOf(<<1>>),
                                       !.child_status = "exit0", !.curPipe = 1,
                                       !.characterCounts = g]
                    ELSE IF p = <<1>>
                    THEN [Fresh EXCEPT !.pc = "reaped", !.status = "exit0"]
                    ELSE Fresh]
    /\ \E d \in ReadInputs : pipeData = [c \in Workers |-> IF c = <<1>> THEN d ELSE <<>>]
    /\ files = [n \in Pids |-> <<>>]
    /\ written = {}
    /\ closed = {<<Root, <<1>>, "w">>, << <<1>>, <<1>>, "r">>, << <<1>>, <<1>>, "w">>}
    /\ badClose = {}
    /\ faults = 0
    /\ Data = <<>>
    /\ histogram = <<>>

NextRead ==
    \/ HandlerRead(Root)
    \/ HandlerOpenFail(Root)
    \/ HandlerNoMore(Root)
    \/ HandlerRearm(Root)
    \/ WaitReturn(Root)

SpecRead == InitRead /\ [][NextRead]_vars

-----------------------------------------------------------------------------
(* Histogram on its own: a buffer is chosen, Histogram is called on it.    *)

\* The bytes buffers are made of: A a Z z 9 and a byte above 127.
Bytes == {65, 97, 90, 122, 57, 233}

InitHist ==
    /\ Data \in UNION {[1..n -> Bytes] : n \in 0..MaxLen}
    /\ histogram = <<>>
    /\ args = <<>>
    /\ signalSysV = FALSE
    /\ proc = [p \in Procs |-> Fresh]
    /\ pipeData = [c \in Workers |-> <<>>]
    /\ files = [n \in Pids |-> <<>>]
    /\ written = {}
    /\ closed = {}
    /\ badClose = {}
    /\ faults = 0

\* histogram = Histogram(Data, Size)
HistCall ==
    /\ histogram = <<>>
    /\ histogram' = Histogram(Data, Len(Data))
    /\ UNCHANGED <<args, signalSysV, proc, pipeData, files, written, closed, badClose,
                   faults, Data>>

NextHist == HistCall

SpecHist == InitHist /\ [][NextHist]_vars


-----------------------------------------------------------------------------
(* Properties.                                                             *)

\* The supervisor has returned from main at line 219.
Returned == proc[Root].pc = "gone" /\ proc[Root].status = "exit0"

NArgs == Len(args)

\* The pid of the worker the supervisor forks for argv[k].
WorkerPid(k) == PidOf(<<k>>)

\* The histogram of the file named at position k.
FileHist(k) == Histogram(FileData(k), Len(FileData(k)))

\* C1: when the supervisor has returned from a run whose N arguments are all
\* readable files (and no system call failed), exactly N result files have
\* been written, one for each worker.
C1_OneFilePerWorker ==
    (Returned /\ faults = 0 /\ \A k \in 1..NArgs : args[k] = "file")
        => /\ Cardinality(written) = NArgs
           /\ \A k \in 1..NArgs : WorkerPid(k) \in written

\* C2: every result file written is named by the pid of a worker whose argument
\* is a file and holds exactly the 26 lines of that worker's histogram.
C2_FileIsWorkersHistogram ==
    \A n \in written :
        \E c \in Workers :
            /\ PidOf(c) = n
            /\ args[c[Len(c)]] = "file"
            /\ files[n] = HistText(FileHist(c[Len(c)]))

\* C3: when the supervisor has returned from a run with a path that cannot be
\* opened, that worker exited with code 1 and has no result file, every worker
\* with a readable file has its result file, all terminations were counted and
\* the exit code is 0.
C3_FailedOpenIsIsolated ==
    (Returned /\ faults = 0 /\ \E k \in 1..NArgs : args[k] = "nofile")
        => /\ \A k \in 1..NArgs :
                /\ args[k] = "nofile" =>
                      proc[<<k>>].status = "exit1" /\ WorkerPid(k) \notin written
                /\ args[k] = "file" => WorkerPid(k) \in written
           /\ proc[Root].numTerminated = NArgs
           /\ proc[Root].status = "exit0"

\* C4: when the supervisor has returned from a run with "SIG" tokens among its
\* arguments, no worker that was killed by a signal has a result file, the
\* result files are exactly those of the workers for files that exited with
\* code 0, and the terminations counted are as many as the arguments.
C4_FilesExactlyForNormalWorkers ==
    (Returned /\ faults = 0 /\ \E k \in 1..NArgs : args[k] = "SIG")
        => /\ \A k \in 1..NArgs :
                proc[<<k>>].status = "signaled" => WorkerPid(k) \notin written
           /\ written = {WorkerPid(k) : k \in {j \in 1..NArgs :
                             args[j] = "file" /\ proc[<<j>>].status = "exit0"}}
           /\ proc[Root].numTerminated = NArgs

\* C5: with no argument or with more than MAX_FILES arguments the supervisor
\* does nothing but exit with a non-zero code: no pipe is created, no process
\* is forked and no handler is installed.
C5_BadArgcNoSideEffects ==
    (NArgs = 0 \/ NArgs > MAX_FILES)
        => /\ proc[Root].pc \in {"main", "gone"}
           /\ proc[Root].pc = "gone" => proc[Root].status = "exit1"
           /\ proc[Root].fds = {}
           /\ proc[Root].disp = "dfl"
           /\ \A c \in Workers : proc[c].pc = "unborn"
           /\ closed = {} /\ written = {}

C5_Witness == NArgs > MAX_FILES /\ proc[Root].pc = "gone" /\ proc[Root].status = "exit1"

\* C6: the supervisor returns only when numTerminated equals numChildren and
\* every worker it forked has terminated and was reaped by the handler.
C6_NoEarlyReturn ==
    Returned
        => /\ proc[Root].numTerminated = proc[Root].numChildren
           /\ proc[Root].numChildren = NArgs
           /\ \A k \in 1..NArgs : proc[<<k>>].pc = "reaped"

C6_Witness == Returned /\ NArgs = MaxArgs /\ proc[Root].numTerminated = MaxArgs

\* Every worker the supervisor forks has terminated.
AllWorkersTerminated ==
    \A k \in 1..NArgs : proc[<<k>>].pc \in {"zombie", "reaped", "gone"}

\* The supervisor sleeps in the wait loop, no SIGCHLD is pending and the
\* handler is not running: only another SIGCHLD can change numTerminated.
WaitingQuietly ==
    /\ proc[Root].pc = "wait"
    /\ proc[Root].hpc = "idle"
    /\ ~proc[Root].pend

\* C7: the supervisor leaves the wait loop once its workers have all
\* terminated: when they have and nothing is left to notify, the loop
\* condition numTerminated < numChildren is false, so that main returns 0.
C7_ReturnsOnceAllTerminated ==
    (AllWorkersTerminated /\ WaitingQuietly)
        => ~(proc[Root].numTerminated < proc[Root].numChildren)

\* The number of bytes of Data that are letters.
AlphaCount == Cardinality({j \in 1..Len(Data) : isalpha(Data[j])})

RECURSIVE SumTo(_, _)
SumTo(h, b) == IF b = 0 THEN 0 ELSE h[b] + SumTo(h, b - 1)

\* Data with the case of the letter at position j changed.
FlipCase(j) ==
    [Data EXCEPT ![j] = IF @ >= 97 /\ @ <= 122 THEN @ - 32
                        ELSE IF @ >= 65 /\ @ <= 90 THEN @ + 32 ELSE @]

\* C8: what Histogram returns sums to the number of letters in the buffer,
\* bucket b counts the b-th letter in either case, changing the case of one
\* byte changes nothing, and an empty buffer gives 26 zeros.
C8_HistogramContract ==
    histogram # <<>>
        => /\ SumTo(histogram, 26) = AlphaCount
           /\ \A b \in Letters :
                histogram[b] = Cardinality({j \in 1..Len(Data) : Data[j] \in {96 + b, 64 + b}})
           /\ \A j \in 1..Len(Data) : Histogram(FlipCase(j), Len(Data)) = histogram
           /\ Data = <<>> => histogram = ZeroHist

C8_Witness ==
    /\ histogram # <<>>
    /\ Len(Data) = MaxLen
    /\ \E j, k, l \in 1..Len(Data) : Data[j] = 65 /\ Data[k] = 97 /\ Data[l] = 57

\* C9: numTerminated never exceeds numChildren in the supervisor.
C9_TerminatedAtMostSpawned == proc[Root].numTerminated <= proc[Root].numChildren

\* C10: when the supervisor has returned it has closed the read end of every
\* worker's pipe with one close() call, and no close() call anywhere was made
\* on a descriptor already closed.
C10_EveryReadEndClosedOnce ==
    /\ badClose = {}
    /\ (Returned /\ faults = 0)
          => \A k \in 1..NArgs : <<Root, <<k>>, "r">> \in closed

\* The workers the supervisor's handler has reaped.
Reaped == {c \in Children(Root) : proc[c].pc = "reaped"}

\* C11: no termination goes unnoticed: the supervisor has counted each worker
\* it reaped once, and a terminated worker is never left unreaped with the
\* supervisor outside its handler and no SIGCHLD pending for it.
C11_NoTerminationUnnoticed ==
    /\ proc[Root].numTerminated = Cardinality(Reaped)
    /\ (InMain(Root) /\ ~proc[Root].pend)
          => \A c \in Children(Root) : proc[c].pc # "zombie"

\* C12: while a worker process runs, the supervisor has a handler installed
\* for SIGCHLD.
C12_ArmedWhileWorkersExist ==
    (\E c \in Children(Root) : Alive(c)) => proc[Root].disp # "dfl"

\* The workers forked for an argument other than "SIG".
NormalWorkers == {p \in Workers : Len(args) >= p[Len(p)] /\ args[p[Len(p)]] # "SIG"}

\* Process p holds the write end of the pipe made for it.
HoldsWriteEnd(pr, p) == <<p, "w">> \in pr[p].fds

\* C13 as stated: a normal worker has closed its write end when it sleeps at
\* line 189.
C13_WriteEndClosedWhileSleeping ==
    \A p \in NormalWorkers : proc[p].pc = "csleep" => ~HoldsWriteEnd(proc, p)

\* C13 amended: a normal worker's last steps are, in this order, the write of
\* the histogram to its write end, the sleep, the close of the write end and
\* exit(0); the write end is open while the worker sleeps and closed when it
\* exits, and a normal worker exits with code 0 in no other way.
C13_WriteSleepCloseExit ==
    [][\A p \in NormalWorkers :
          /\ (proc[p].pc # "csleep" /\ proc'[p].pc = "csleep")
                => /\ proc[p].pc = "copen"
                   /\ faults' = faults => pipeData'[p] = Payload(calcHisto(p))
          /\ proc[p].pc = "csleep"
                => /\ HoldsWriteEnd(proc, p)
                   /\ proc'[p].pc \in {"csleep", "cclose"}
          /\ proc[p].pc = "cclose"
                => /\ HoldsWriteEnd(proc, p)
                   /\ proc'[p].pc \in {"cclose", "cexit"}
          /\ proc[p].pc = "cexit"
                => /\ ~HoldsWriteEnd(proc, p)
                   /\ proc'[p].pc \in {"cexit", "zombie", "gone"}
                   /\ proc'[p].pc # "cexit" => proc'[p].status = "exit0"
          /\ (proc[p].status # "exit0" /\ proc'[p].status = "exit0")
                => proc[p].pc = "cexit"]_vars

C13_Witness ==
    \E p \in NormalWorkers :
        /\ args[p[Len(p)]] = "file"
        /\ proc[p].status = "exit0"
        /\ <<p, p, "w">> \in closed
        /\ PidOf(p) \in written

\* The workers forked for the argument "SIG".
SigWorkers == {p \in Workers : Len(args) >= p[Len(p)] /\ args[p[Len(p)]] = "SIG"}

\* C14: a "SIG" worker only starts, waits for the signal at line 196 and
\* terminates, killed by the signal or by exiting with code 0: it executes no
\* other part of main and forks nothing.
C14_SigWorkerOnlyWaits ==
    \A p \in SigWorkers :
        /\ proc[p].pc \in {"unborn", "cstart", "csigwait", "zombie", "reaped", "gone"}
        /\ proc[p].status \in {"none", "signaled", "exit0"}
        /\ \A c \in Children(p) : proc[c].pc = "unborn"

\* The pipe the supervisor's handler reads at line 55.
ReadPipe == proc[Root].pipes[proc[Root].curPipe]

\* C15: when the supervisor's handler is at the read of line 55, no process
\* holds the write end of the pipe it reads, so that the read returns at once.
C15_ReadNeverWaits ==
    proc[Root].hpc = "read" => Writers(ReadPipe) = {}

\* Process p reaps its child c, which exited, and finds no entry of pids for it.
LookupMiss(p, c) ==
    /\ c \in Children(p)
    /\ proc[c].pc = "zombie" /\ proc'[c].pc = "reaped"
    /\ WIFEXITED(proc[c].status)
    /\ Lookup(proc[p].pids, PidOf(c)) = 0

\* C16: a step in which the handler reaps an exited child it does not find in
\* pids counts the termination, writes no file, closes nothing, leaves the
\* supervisor running where it was and the handler at its waitpid() loop.
C16_LookupMissReportOnly ==
    [][\A p \in Procs : \A c \in Workers :
          LookupMiss(p, c)
              => /\ proc'[p].numTerminated = proc[p].numTerminated + 1
                 /\ files' = files /\ written' = written
                 /\ closed' = closed /\ badClose' = badClose
                 /\ proc'[p].fds = proc[p].fds
                 /\ proc'[p].pc = proc[p].pc
                 /\ proc'[p].status = "none"
                 /\ proc'[p].hpc = "waitpid"]_vars

\* The supervisor's handler is back at waitpid() after a lookup miss, both
\* workers are reaped and counted, and no file was written.
C16_Witness ==
    /\ proc[Root].hpc = "waitpid"
    /\ proc[Root].curPipe = 0 /\ WIFEXITED(proc[Root].child_status)
    /\ proc[Root].numTerminated = 2
    /\ Alive(Root)
    /\ \A k \in 1..2 : proc[<<k>>].pc = "reaped"
    /\ written = {}

C18_ExclusiveOwnership ==
    \A k \in 1..NArgs :
        <<Root, <<k>>, "w">> \in closed
            => /\ Writers(<<k>>) \subseteq {<<k>>}
               /\ Readers(<<k>>) \subseteq {Root, <<k>>}

\* C19: whenever the supervisor's handler has reaped a child that exited, it
\* has found the child's pid in pids (curPipe is not -1).
C19_LookupFindsOwnWorkers ==
    (proc[Root].child_pid # 0 /\ WIFEXITED(proc[Root].child_status))
        => proc[Root].curPipe # 0

\* The positions of the for loop and of the wait loop outside the child branch.
SupervisorPcs == {"loop", "fork", "pclose", "psetpid", "pinc", "pkill", "wait"}

\* The processes forked so far.
Created == {p \in Workers : proc[p].pc # "unborn"}

\* C20: no worker executes the for loop (outside its own child branch) or the
\* wait loop, no worker forks, and when the supervisor has returned the
\* processes created are as many as the arguments.
C20_OnlySupervisorForks ==
    /\ \A p \in Workers : proc[p].pc \notin SupervisorPcs
    /\ \A p \in Created : Parent(p) = Root
    /\ (Returned /\ faults = 0) => Cardinality(Created) = NArgs

=============================================================================
